---- MODULE Spec2Model ----
(***************************************************************************)
(* A model of ndn::Validator (src/security/validator.cpp): the recursive,  *)
(* asynchronous validation orchestrator (validate / onData / onTimeout)    *)
(* and the signature-verification dispatch (verifySignature).              *)
(*                                                                         *)
(* The PolicyEngine (the pure virtual checkPolicy and the continuations it *)
(* stores in a ValidationRequest) and the Transport (Face) are external    *)
(* collaborators: their steps are nondeterministic choices that obey the   *)
(* contracts of the specification.                                         *)
(***************************************************************************)
EXTENDS Integers, Sequences, FiniteSets, TLC

\* ------------------------------------------------------------------ bounds
\* The number of ValidationRequests checkPolicy creates in one behaviour.
MaxReqs == 2
\* The largest m_retry the PolicyEngine gives a ValidationRequest.
MaxRetry == 1
\* The largest stepCount (recursion budget) a caller or the PolicyEngine uses.
MaxStep == 1

Retries == 0 .. MaxRetry
Steps == 0 .. MaxStep
Forms == {"Interest", "Data"}

VARIABLES
  m_face,     \* Validator::m_face: TRUE iff the shared_ptr<Face> is non-null
  call,       \* the top-level validate call: its arguments and how it ended
  reqs,       \* every ValidationRequest checkPolicy has created, by identity
  closure,    \* what the continuations stored in each request have captured
  pending,    \* the fetches in flight: the callbacks bound by expressInterest
  expressed,  \* history, per request: its expressInterest calls, in order
  events,     \* history, per request: the data / timeout events of its fetches
  invoked,    \* history, per request: the continuation invocations it caused
  validated,  \* history, per request: the validate calls its onData made
  thrown,     \* history: every Error thrown by validate
  budgetRule, \* PolicyEngine: how a request's m_stepCount follows stepCount
  vin,        \* verifySignature: the inputs of the call
  vout        \* verifySignature: the outcome of the call

vars == <<m_face, call, reqs, closure, pending, expressed, events, invoked,
          validated, thrown, budgetRule, vin, vout>>

\* ----------------------------------------------------------- continuations
\* A continuation is identified by its owner (0: the caller of the top-level
\* validate; r > 0: ValidationRequest r) and by which of the pair it is.
OnValidatedOf(o) == [owner |-> o, which |-> "onValidated"]
OnValidationFailedOf(o) == [owner |-> o, which |-> "onValidationFailed"]

\* A validation subject: the top-level Interest/Data (of = 0), or the Data
\* fetched for ValidationRequest `of`. `verifies` is whether that fetched
\* certificate verifies the signature of the subject it was fetched for.
TopSubject(form) == [form |-> form, of |-> 0, verifies |-> TRUE]
FetchedData(r, good) == [form |-> "Data", of |-> r, verifies |-> good]

\* The mutable program state the orchestration operators transform. The
\* histories are indexed by request; index 0 is the top-level validate call.
State ==
  [reqs |-> reqs, closure |-> closure, pending |-> pending,
   expressed |-> expressed, events |-> events, invoked |-> invoked,
   validated |-> validated, thrown |-> thrown]

\* The invocations that invoking continuation `fn` on `arg` leads to. A user
\* continuation is a leaf. A continuation stored in request r is the
\* PolicyEngine's wrapper: its success continuation checks the captured
\* subject against the fetched certificate `arg` and calls the captured
\* onValidated or onValidationFailed on the captured subject; its failure
\* continuation calls the captured onValidationFailed on the captured subject.
RECURSIVE Chain(_, _, _, _)
Chain(cl, fn, arg, by) ==
  LET rec == [fn |-> fn, arg |-> arg, by |-> by]
  IN IF fn.owner = 0
       THEN <<rec>>
       ELSE LET c == cl[fn.owner]
                next == IF fn.which = "onValidated" /\ arg.verifies
                          THEN c.onValidated
                          ELSE c.onValidationFailed
            IN <<rec>> \o Chain(cl, next, c.subject, "wrapper")

\* `ctx` is the request whose callback is running (0: the top-level call).
Invoke(s, fn, arg, by, ctx) ==
  [s EXCEPT !.invoked[ctx] = @ \o Chain(s.closure, fn, arg, by)]

\* -------------------------------------------------------------- PolicyEngine
\* A policy decision: accept or reject outright (invoking a continuation and
\* returning no request), or defer by returning one or more requests, each
\* with its own m_retry. The m_stepCount of a request is the stepCount of the
\* checkPolicy call plus the engine's budgetRule (-1, 0 or +1).
BudgetRules == {-1, 0, 1}
Decisions ==
  {[kind |-> k, steps |-> <<>>] : k \in {"accept", "reject"}}
    \cup {[kind |-> "defer", steps |-> q] :
            q \in UNION {[1 .. n -> Retries] : n \in 1 .. MaxReqs}}

NewRequest(id, retry, stepCount) ==
  [m_interest |-> <<"cert", id>>,
   m_retry |-> retry,
   m_stepCount |-> stepCount,
   m_onValidated |-> OnValidatedOf(id),
   m_onDataValidated |-> OnValidationFailedOf(id)]

\* checkPolicy(subject, stepCount, onValidated, onValidationFailed, nextSteps):
\* the result is the new state and the list of requests (their identities).
checkPolicy(s, subject, stepCount, onValidated, onValidationFailed, pol) ==
  CASE pol.kind = "accept" ->
         [s |-> Invoke(s, onValidated, subject, "policy", subject.of),
          nextSteps |-> <<>>]
    [] pol.kind = "reject" ->
         [s |-> Invoke(s, onValidationFailed, subject, "policy", subject.of),
          nextSteps |-> <<>>]
    [] pol.kind = "defer" ->
         LET base == Len(s.reqs)
             n == Len(pol.steps)
             fresh == [i \in base + 1 .. base + n |-> <<>>]
         IN [s |-> [s EXCEPT
                      !.reqs = @ \o [i \in 1 .. n |->
                                       NewRequest(base + i, pol.steps[i],
                                                  stepCount + budgetRule)],
                      !.closure = @ \o [i \in 1 .. n |->
                                          [subject |-> subject,
                                           onValidated |-> onValidated,
                                           onValidationFailed |->
                                             onValidationFailed]],
                      !.expressed = @ @@ fresh,
                      !.events = @ @@ fresh,
                      !.invoked = @ @@ fresh,
                      !.validated = @ @@ fresh],
             nextSteps |-> [i \in 1 .. n |-> base + i]]

\* ------------------------------------------------------------------ Transport
\* Face::expressInterest(interest, onData, onTimeout): onData is bound to
\* nextStep; onTimeout is bound to (retry, onFailure, nextStep).
expressInterest(s, interest, retry, onFailure, nextStep, from) ==
  LET f == [id |-> Len(s.expressed[nextStep]) + 1, interest |-> interest,
            retry |-> retry, onFailure |-> onFailure, nextStep |-> nextStep,
            from |-> from]
  IN [s EXCEPT !.expressed[nextStep] = Append(@, f), !.pending = @ \cup {f}]

\* The number of expressInterest calls made so far.
RECURSIVE Total(_, _)
Total(h, n) == IF n < 0 THEN 0 ELSE Len(h[n]) + Total(h, n - 1)
NumExpressed(s) == Total(s.expressed, Len(s.reqs))

\* ------------------------------------------------------------------ Validator
\* A variant of the loop that binds, into each request's timeout callback, the
\* failure continuation stored in that request instead of the caller's.
RECURSIVE expressAllStoredFailure(_, _, _, _)
expressAllStoredFailure(s, nextSteps, i, onFailure) ==
  IF i > Len(nextSteps)
    THEN s
    ELSE LET it == nextSteps[i]
         IN expressAllStoredFailure(
              expressInterest(s, s.reqs[it].m_interest, s.reqs[it].m_retry,
                              [fn |-> s.reqs[it].m_onDataValidated,
                               arg |-> onFailure.arg],
                              it, "validate"),
              nextSteps, i + 1, onFailure)

\* The for loop of validate: one expressInterest per request of nextSteps, in
\* order, each timeout callback bound to (*it)->m_retry and the shared onFailure.
RECURSIVE expressAll(_, _, _, _)
expressAll(s, nextSteps, i, onFailure) ==
  IF i > Len(nextSteps)
    THEN s
    ELSE LET it == nextSteps[i]
         IN expressAll(
              expressInterest(s, s.reqs[it].m_interest, s.reqs[it].m_retry,
                              onFailure, it, "validate"),
              nextSteps, i + 1, onFailure)

Entered(s, subject, onValidated, onValidationFailed, stepCount) ==
  [s EXCEPT !.validated[subject.of] =
     Append(@, [subject |-> subject, onValidated |-> onValidated,
                onValidationFailed |-> onValidationFailed,
                stepCount |-> stepCount])]

\* throw Error("Face should be set prior to verify method to call")
Throw(s, subject) ==
  [s EXCEPT !.thrown = Append(@, [subject |-> subject,
                                  expressed |-> NumExpressed(s)])]

\* Validator::validate(const shared_ptr<const Interest>&, ...)
validateInterest(s, interest, onValidated, onValidationFailed, stepCount, pol) ==
  LET cp == checkPolicy(
              Entered(s, interest, onValidated, onValidationFailed, stepCount),
              interest, stepCount, onValidated, onValidationFailed, pol)
      onFailure == [fn |-> onValidationFailed, arg |-> interest]
  IN IF cp.nextSteps # <<>>
       THEN IF ~m_face
              THEN Throw(cp.s, interest)
              ELSE expressAll(cp.s, cp.nextSteps, 1, onFailure)
       ELSE cp.s

\* A variant of validate(Data) that reports a missing Face through the
\* failure continuation instead of throwing.
validateDataReportsNoFace(s, data, onValidated, onValidationFailed, stepCount, pol) ==
  LET cp == checkPolicy(
              Entered(s, data, onValidated, onValidationFailed, stepCount),
              data, stepCount, onValidated, onValidationFailed, pol)
      onFailure == [fn |-> onValidationFailed, arg |-> data]
  IN IF cp.nextSteps # <<>>
       THEN IF ~m_face
              THEN Invoke(cp.s, onValidationFailed, data, "validator", data.of)
              ELSE expressAll(cp.s, cp.nextSteps, 1, onFailure)
       ELSE cp.s

\* A variant of validate(Data) that requires the Face before it looks at the
\* request list.
validateDataFaceFirst(s, data, onValidated, onValidationFailed, stepCount, pol) ==
  LET cp == checkPolicy(
              Entered(s, data, onValidated, onValidationFailed, stepCount),
              data, stepCount, onValidated, onValidationFailed, pol)
      onFailure == [fn |-> onValidationFailed, arg |-> data]
  IN IF ~m_face
       THEN Throw(cp.s, data)
       ELSE IF cp.nextSteps # <<>>
              THEN expressAll(cp.s, cp.nextSteps, 1, onFailure)
              ELSE cp.s

\* A variant of validate(Data) that looks for the Face only after the loop
\* over the requests.
validateDataThrowsLate(s, data, onValidated, onValidationFailed, stepCount, pol) ==
  LET cp == checkPolicy(
              Entered(s, data, onValidated, onValidationFailed, stepCount),
              data, stepCount, onValidated, onValidationFailed, pol)
      onFailure == [fn |-> onValidationFailed, arg |-> data]
      after == expressAll(cp.s, cp.nextSteps, 1, onFailure)
  IN IF cp.nextSteps # <<>>
       THEN IF ~m_face THEN Throw(after, data) ELSE after
       ELSE cp.s

\* Validator::validate(const shared_ptr<const Data>&, ...)
validateData(s, data, onValidated, onValidationFailed, stepCount, pol) ==
  LET cp == checkPolicy(
              Entered(s, data, onValidated, onValidationFailed, stepCount),
              data, stepCount, onValidated, onValidationFailed, pol)
      onFailure == [fn |-> onValidationFailed, arg |-> data]
  IN IF cp.nextSteps # <<>>
       THEN IF ~m_face
              THEN Throw(cp.s, data)
              ELSE expressAll(cp.s, cp.nextSteps, 1, onFailure)
       ELSE cp.s

\* A variant of onData that treats the fetched Data as trusted: it invokes the
\* request's success continuation without validating the Data.
onDataTrustsFetched(s, interest, data, nextStep, pol) ==
  Invoke(s, s.reqs[nextStep].m_onValidated, data, "policy", nextStep)

\* A variant of onData that fetches again when the PolicyEngine rejects the
\* fetched Data.
onDataRetriesOnReject(s, interest, data, nextStep, pol) ==
  IF pol.kind = "reject"
    THEN expressInterest(s, interest, s.reqs[nextStep].m_retry,
                         [fn |-> s.closure[nextStep].onValidationFailed,
                          arg |-> s.closure[nextStep].subject],
                         nextStep, "onData")
    ELSE validateData(s, data, s.reqs[nextStep].m_onValidated,
                      s.reqs[nextStep].m_onDataValidated,
                      s.reqs[nextStep].m_stepCount, pol)

\* A variant of onData that counts the hop itself: it passes the request's
\* m_stepCount plus one.
onDataBumpsBudget(s, interest, data, nextStep, pol) ==
  validateData(s, data, s.reqs[nextStep].m_onValidated,
               s.reqs[nextStep].m_onDataValidated,
               s.reqs[nextStep].m_stepCount + 1, pol)

\* A variant of onData that passes the stepCount of the top-level call instead
\* of the request's m_stepCount.
onDataResetsBudget(s, interest, data, nextStep, pol) ==
  validateData(s, data, s.reqs[nextStep].m_onValidated,
               s.reqs[nextStep].m_onDataValidated,
               s.validated[0][1].stepCount, pol)

\* Validator::onData(interest, data, nextStep)
onData(s, interest, data, nextStep, pol) ==
  validateData(s, data, s.reqs[nextStep].m_onValidated,
               s.reqs[nextStep].m_onDataValidated,
               s.reqs[nextStep].m_stepCount, pol)

\* A variant of onTimeout that gives up one timeout early.
onTimeoutOffByOne(s, interest, retry, onFailure, nextStep) ==
  IF retry > 1
    THEN expressInterest(s, interest, retry - 1, onFailure, nextStep,
                         "onTimeout")
    ELSE Invoke(s, onFailure.fn, onFailure.arg, "validator", nextStep)

\* A variant of onTimeout that reports exhaustion through the failure
\* continuation stored in the request, applied to the top-level subject.
onTimeoutStoredFailure(s, interest, retry, onFailure, nextStep) ==
  IF retry > 0
    THEN expressInterest(s, interest, retry - 1, onFailure, nextStep,
                         "onTimeout")
    ELSE Invoke(s, s.reqs[nextStep].m_onDataValidated, s.validated[0][1].subject,
                "validator", nextStep)

\* A variant of onTimeout that reissues the fetch under a changed name.
onTimeoutRenames(s, interest, retry, onFailure, nextStep) ==
  IF retry > 0
    THEN expressInterest(s, Append(interest, "retry"), retry - 1, onFailure,
                         nextStep, "onTimeout")
    ELSE Invoke(s, onFailure.fn, onFailure.arg, "validator", nextStep)

\* A variant of onTimeout that drops the fetch, instead of reissuing it, once a
\* continuation of the top-level call has been invoked.
onTimeoutCancelsAfterOutcome(s, interest, retry, onFailure, nextStep) ==
  IF retry > 0
    THEN IF \E c \in DOMAIN s.invoked :
              \E i \in DOMAIN s.invoked[c] : s.invoked[c][i].fn.owner = 0
           THEN s
           ELSE expressInterest(s, interest, retry - 1, onFailure, nextStep,
                                "onTimeout")
    ELSE Invoke(s, onFailure.fn, onFailure.arg, "validator", nextStep)

\* A variant of onTimeout that issues the reissued fetch twice.
onTimeoutDoubleIssue(s, interest, retry, onFailure, nextStep) ==
  IF retry > 0
    THEN expressInterest(
           expressInterest(s, interest, retry - 1, onFailure, nextStep,
                           "onTimeout"),
           interest, retry - 1, onFailure, nextStep, "onTimeout")
    ELSE Invoke(s, onFailure.fn, onFailure.arg, "validator", nextStep)

\* A variant of onTimeout that keeps the remaining retry count in the request:
\* it decrements m_retry when it reissues.
onTimeoutDecrementsRequest(s, interest, retry, onFailure, nextStep) ==
  IF retry > 0
    THEN expressInterest([s EXCEPT !.reqs[nextStep].m_retry = @ - 1],
                         interest, retry - 1, onFailure, nextStep, "onTimeout")
    ELSE Invoke(s, onFailure.fn, onFailure.arg, "validator", nextStep)

\* Validator::onTimeout(interest, retry, onFailure, nextStep)
onTimeout(s, interest, retry, onFailure, nextStep) ==
  IF retry > 0
    THEN expressInterest(s, interest, retry - 1, onFailure, nextStep,
                         "onTimeout")
    ELSE Invoke(s, onFailure.fn, onFailure.arg, "validator", nextStep)

\* ------------------------------------------------------------ verifySignature
\* The largest number of components in the Name of a signed Interest.
MaxNameSize == 4

SigTypes == {"Sha256WithRsa", "Sha256", "Unknown"}
VerifyForms == {"Data", "Interest", "Buffer"}

\* The inputs of one verifySignature call, by what the code makes of them:
\*   sigType    the value of Signature::getType()
\*   sigError   the SignatureSha256WithRsa constructor throws Signature::Error
\*   blockError encoding / parsing the Name of the Interest throws Block::Error
\*   keyLoads   CryptoPP's RSA::PublicKey::Load accepts the key bytes (it
\*              throws CryptoPP::BERDecodeErr when it does not)
\*   matches    the result of Verifier::VerifyMessage on the signed range
VerifyInputs ==
  [form : VerifyForms, sigType : SigTypes, sigError : BOOLEAN,
   blockError : BOOLEAN, keyLoads : BOOLEAN, matches : BOOLEAN,
   nameSize : 0 .. MaxNameSize]

\* The outcome of a call: the value returned or the exception that escapes,
\* whether the Name was encoded and parsed, and whether the RSA check ran.
Return(v, parsed, crypto) ==
  [kind |-> "return", value |-> v, what |-> "none", parsed |-> parsed,
   crypto |-> crypto]
Raise(what, parsed, crypto) ==
  [kind |-> "throw", value |-> FALSE, what |-> what, parsed |-> parsed,
   crypto |-> crypto]

\* try { ... } catch (E& e) { return false; } for the exception types caught
Catch(out, caught) ==
  IF out.kind = "throw" /\ out.what \in caught
    THEN Return(FALSE, out.parsed, out.crypto)
    ELSE out

\* Validator::verifySignature(const Data&, const SignatureSha256WithRsa&, key)
verifySignatureDataRsa(in, parsed) ==
  IF ~in.keyLoads
    THEN Raise("CryptoPP::BERDecodeErr", parsed, TRUE)
    ELSE Return(in.matches, parsed, TRUE)

\* Validator::verifySignature(const Buffer&, const SignatureSha256WithRsa&, key)
verifySignatureBufferRsa(in, parsed) ==
  IF ~in.keyLoads
    THEN Raise("CryptoPP::BERDecodeErr", parsed, TRUE)
    ELSE Return(in.matches, parsed, TRUE)

\* Validator::verifySignature(const uint8_t*, size_t, SignatureSha256WithRsa, key)
verifySignatureBytesRsa(in, parsed) ==
  IF ~in.keyLoads
    THEN Raise("CryptoPP::BERDecodeErr", parsed, TRUE)
    ELSE Return(in.matches, parsed, TRUE)

\* A variant of verifySignature(Data, key) whose switch has no default case:
\* every signature type is handed to the RSA check.
verifySignatureDataNoDefault(in) ==
  Catch(IF in.sigError
          THEN Raise("Signature::Error", FALSE, FALSE)
          ELSE verifySignatureDataRsa(in, FALSE),
        {"Signature::Error"})

\* Validator::verifySignature(const Data&, const PublicKey&)
verifySignatureData(in) ==
  Catch(IF in.sigType = "Sha256WithRsa"
          THEN IF in.sigError
                 THEN Raise("Signature::Error", FALSE, FALSE)
                 ELSE verifySignatureDataRsa(in, FALSE)
          ELSE Return(FALSE, FALSE, FALSE),
        {"Signature::Error"})

\* A variant of verifySignature(Interest, key) whose size check is off by
\* one: a Name of two components goes on to be encoded and parsed.
verifySignatureInterestShortName(in) ==
  IF in.nameSize < 2
    THEN Return(FALSE, FALSE, FALSE)
    ELSE Catch(IF in.blockError
                 THEN Raise("Block::Error", TRUE, FALSE)
                 ELSE IF in.sigType = "Sha256WithRsa"
                        THEN IF in.sigError
                               THEN Raise("Signature::Error", TRUE, FALSE)
                               ELSE verifySignatureBytesRsa(in, TRUE)
                        ELSE Return(FALSE, TRUE, FALSE),
               {"Signature::Error", "Block::Error"})

\* Validator::verifySignature(const Interest&, const PublicKey&)
verifySignatureInterest(in) ==
  IF in.nameSize < 3
    THEN Return(FALSE, FALSE, FALSE)
    ELSE Catch(IF in.blockError
                 THEN Raise("Block::Error", TRUE, FALSE)
                 ELSE IF in.sigType = "Sha256WithRsa"
                        THEN IF in.sigError
                               THEN Raise("Signature::Error", TRUE, FALSE)
                               ELSE verifySignatureBytesRsa(in, TRUE)
                        ELSE Return(FALSE, TRUE, FALSE),
               {"Signature::Error", "Block::Error"})

\* Validator::verifySignature(const Buffer&, const Signature&, const PublicKey&)
verifySignatureBuffer(in) ==
  Catch(IF in.sigType = "Sha256WithRsa"
          THEN IF in.sigError
                 THEN Raise("Signature::Error", FALSE, FALSE)
                 ELSE verifySignatureBufferRsa(in, FALSE)
          ELSE Return(FALSE, FALSE, FALSE),
        {"Signature::Error"})

\* ------------------------------------------------------------- state machine
NoCall == [status |-> "none", form |-> "none", stepCount |-> 0, kind |-> "none"]
NoVerify == [form |-> "none"]
NoOutcome == [kind |-> "none"]
Empty == [i \in {0} |-> <<>>]

Init ==
  /\ m_face \in BOOLEAN
  /\ call = NoCall
  /\ reqs = <<>>
  /\ closure = <<>>
  /\ pending = {}
  /\ expressed = Empty
  /\ events = Empty
  /\ invoked = Empty
  /\ validated = Empty
  /\ thrown = <<>>
  /\ budgetRule \in BudgetRules
  /\ vin = NoVerify
  /\ vout = NoOutcome

Becomes(s) ==
  /\ reqs' = s.reqs
  /\ closure' = s.closure
  /\ pending' = s.pending
  /\ expressed' = s.expressed
  /\ events' = s.events
  /\ invoked' = s.invoked
  /\ validated' = s.validated
  /\ thrown' = s.thrown

\* The PolicyEngine creates at most MaxReqs requests in one behaviour, and
\* keeps every budget within Steps.
Fits(pol, stepCount) ==
  /\ Len(reqs) + Len(pol.steps) <= MaxReqs
  /\ pol.kind = "defer" => stepCount + budgetRule \in Steps

Ended(s, form, stepCount, pol) ==
  [status |-> IF Len(s.thrown) > Len(thrown) THEN "threw" ELSE "returned",
   form |-> form, stepCount |-> stepCount, kind |-> pol.kind]

\* The Face has answered fetch f: its callbacks are consumed.
Answered(f, ev, kind) ==
  [State EXCEPT !.pending = @ \ {f},
                !.events[f.nextStep] = Append(@, [id |-> f.id, ev |-> ev,
                                                  kind |-> kind])]

\* The application calls validate on an Interest.
ValidateInterest ==
  /\ call.status = "none"
  /\ \E stepCount \in Steps, pol \in Decisions :
       /\ Fits(pol, stepCount)
       /\ LET s == validateInterest(State, TopSubject("Interest"),
                                    OnValidatedOf(0), OnValidationFailedOf(0),
                                    stepCount, pol)
          IN /\ Becomes(s)
             /\ call' = Ended(s, "Interest", stepCount, pol)
  /\ UNCHANGED <<m_face, budgetRule, vin, vout>>

\* The application calls validate on a Data.
ValidateData ==
  /\ call.status = "none"
  /\ \E stepCount \in Steps, pol \in Decisions :
       /\ Fits(pol, stepCount)
       /\ LET s == validateData(State, TopSubject("Data"),
                                OnValidatedOf(0), OnValidationFailedOf(0),
                                stepCount, pol)
          IN /\ Becomes(s)
             /\ call' = Ended(s, "Data", stepCount, pol)
  /\ UNCHANGED <<m_face, budgetRule, vin, vout>>

\* The Face delivers Data for a pending fetch: its onData callback runs.
OnData ==
  \E f \in pending, good \in BOOLEAN, pol \in Decisions :
    /\ Fits(pol, reqs[f.nextStep].m_stepCount)
    /\ Becomes(onData(Answered(f, "data", pol.kind), f.interest,
                      FetchedData(f.nextStep, good), f.nextStep, pol))
    /\ UNCHANGED <<m_face, call, budgetRule, vin, vout>>

\* The Face times a pending fetch out: its onTimeout callback runs.
OnTimeout ==
  \E f \in pending :
    /\ Becomes(onTimeout(Answered(f, "timeout", "none"), f.interest,
                         f.retry, f.onFailure, f.nextStep))
    /\ UNCHANGED <<m_face, call, budgetRule, vin, vout>>

Next ==
  \/ ValidateInterest
  \/ ValidateData
  \/ OnData
  \/ OnTimeout

Spec == Init /\ [][Next]_vars

\* ------------------------------------------ the same program, one request more
\* The same Validator with a PolicyEngine that may create one request more in
\* a behaviour: enough for a fetched certificate that itself needs two
\* certificates.
DeepReqs == MaxReqs + 1

DeepFits(pol, stepCount) ==
  /\ Len(reqs) + Len(pol.steps) <= DeepReqs
  /\ pol.kind = "defer" => stepCount + budgetRule \in Steps

DeepValidateInterest ==
  /\ call.status = "none"
  /\ \E stepCount \in Steps, pol \in Decisions :
       /\ DeepFits(pol, stepCount)
       /\ LET s == validateInterest(State, TopSubject("Interest"),
                                    OnValidatedOf(0), OnValidationFailedOf(0),
                                    stepCount, pol)
          IN /\ Becomes(s)
             /\ call' = Ended(s, "Interest", stepCount, pol)
  /\ UNCHANGED <<m_face, budgetRule, vin, vout>>

DeepValidateData ==
  /\ call.status = "none"
  /\ \E stepCount \in Steps, pol \in Decisions :
       /\ DeepFits(pol, stepCount)
       /\ LET s == validateData(State, TopSubject("Data"),
                                OnValidatedOf(0), OnValidationFailedOf(0),
                                stepCount, pol)
          IN /\ Becomes(s)
             /\ call' = Ended(s, "Data", stepCount, pol)
  /\ UNCHANGED <<m_face, budgetRule, vin, vout>>

DeepOnData ==
  \E f \in pending, good \in BOOLEAN, pol \in Decisions :
    /\ DeepFits(pol, reqs[f.nextStep].m_stepCount)
    /\ Becomes(onData(Answered(f, "data", pol.kind), f.interest,
                      FetchedData(f.nextStep, good), f.nextStep, pol))
    /\ UNCHANGED <<m_face, call, budgetRule, vin, vout>>

DeepNext ==
  \/ DeepValidateInterest
  \/ DeepValidateData
  \/ DeepOnData
  \/ OnTimeout

DeepSpec == Init /\ [][DeepNext]_vars

\* ------------------------------------------- verifySignature as a state machine
\* One verifySignature call on inputs drawn by the initial state.
VInit ==
  /\ m_face = FALSE
  /\ call = NoCall
  /\ reqs = <<>>
  /\ closure = <<>>
  /\ pending = {}
  /\ expressed = Empty
  /\ events = Empty
  /\ invoked = Empty
  /\ validated = Empty
  /\ thrown = <<>>
  /\ budgetRule = 0
  /\ vin \in VerifyInputs
  /\ vout = NoOutcome

Idle == UNCHANGED <<m_face, call, reqs, closure, pending, expressed, events,
                    invoked, validated, thrown, budgetRule, vin>>

VerifyData ==
  /\ vout = NoOutcome
  /\ vin.form = "Data"
  /\ vout' = verifySignatureData(vin)
  /\ Idle

VerifyInterest ==
  /\ vout = NoOutcome
  /\ vin.form = "Interest"
  /\ vout' = verifySignatureInterest(vin)
  /\ Idle

VerifyBuffer ==
  /\ vout = NoOutcome
  /\ vin.form = "Buffer"
  /\ vout' = verifySignatureBuffer(vin)
  /\ Idle

VNext ==
  \/ VerifyData
  \/ VerifyInterest
  \/ VerifyBuffer

VerifySpec == VInit /\ [][VNext]_vars

\* ==================================================================== claims
Requests == 1 .. Len(reqs)
Contexts == 0 .. Len(reqs)

IsTimeout(e) == e.ev = "timeout"
IsData(e) == e.ev = "data"
ByValidator(v) == v.by = "validator"
ToUser(v) == v.fn.owner = 0

\* The number of timeouts of request r's fetches; whether Data arrived for r.
Timeouts(r) == Len(SelectSeq(events[r], IsTimeout))
HasData(r) == Len(SelectSeq(events[r], IsData)) > 0
\* The continuation invocations Validator::onTimeout made for request r.
Exhaustions(r) == SelectSeq(invoked[r], ByValidator)
\* Whether a fetch of request r is in flight.
InFlight(r) == \E f \in pending : f.nextStep = r

RECURSIVE UserCount(_)
UserCount(n) ==
  IF n < 0 THEN 0 ELSE Len(SelectSeq(invoked[n], ToUser)) + UserCount(n - 1)
\* How many times the onValidated / onValidationFailed of the top-level
\* validate call have been invoked.
NumUserInvocations == UserCount(Len(reqs))
NumValidatorInvocations == Total([r \in Contexts |-> Exhaustions(r)], Len(reqs))

\* C1: the continuations of a top-level validate call are invoked at most once
\* in total, however many sibling requests there are and however they end.
C1_AtMostOnce == NumUserInvocations <= 1

\* C2: once a top-level validate call has returned and every fetch has been
\* answered, exactly one of its continuations has been invoked, exactly once.
C2_ExactlyOnce ==
  (call.status = "returned" /\ pending = {}) => NumUserInvocations = 1

\* C3: a request with retry count R that the Validator issued and whose
\* fetches all time out is fetched
\* min(T, R) + 1 times after T timeouts, never times out more than R + 1
\* times, and onTimeout invokes the failure continuation exactly on the
\* (R + 1)-th timeout.
C3_RetryCount ==
  \A r \in Requests :
    (thrown = <<>> /\ ~HasData(r)) =>
      LET R == reqs[r].m_retry
          T == Timeouts(r)
      IN /\ T <= R + 1
         /\ Len(expressed[r]) = IF T <= R THEN T + 1 ELSE R + 1
         /\ Len(Exhaustions(r)) = IF T = R + 1 THEN 1 ELSE 0

C3_Witness ==
  \E r \in Requests :
    /\ reqs[r].m_retry >= 1
    /\ ~HasData(r)
    /\ Timeouts(r) = reqs[r].m_retry + 1
    /\ Len(Exhaustions(r)) = 1

\* C4: a validate call whose checkPolicy returns requests while no Face is
\* set throws, and has then made no expressInterest call and invoked no
\* continuation.
C4_NoFaceThrows ==
  /\ (call.status # "none" /\ call.kind = "defer" /\ ~m_face) =>
       call.status = "threw"
  /\ call.status = "threw" =>
       /\ ~m_face
       /\ Len(thrown) = 1
       /\ thrown[1].expressed = 0
       /\ NumExpressed(State) = 0
       /\ pending = {}
       /\ \A c \in Contexts : invoked[c] = <<>>

C4_Witness == call.status = "threw" /\ call.kind = "defer"

\* C5: a validate call whose checkPolicy returns no request returns normally
\* without any expressInterest call and without the Validator invoking a
\* continuation, with or without a Face; this holds of the top-level call and
\* of the validate call made by onData.
C5_EmptyList ==
  /\ call.kind \in {"accept", "reject"} =>
       /\ call.status = "returned"
       /\ thrown = <<>>
       /\ NumExpressed(State) = 0
       /\ NumValidatorInvocations = 0
       /\ reqs = <<>>
  /\ \A r \in Requests :
       \A i \in DOMAIN events[r] :
         events[r][i].kind \in {"accept", "reject"} =>
           /\ Exhaustions(r) = <<>>
           /\ \A c \in Requests : closure[c].subject.of # r

C5_Witness ==
  /\ ~m_face
  /\ call.status = "returned"
  /\ call.kind = "accept"

C5_WitnessNested ==
  \E r \in Requests :
    \E i \in DOMAIN events[r] : events[r][i].kind = "reject"

\* C6: when Data arrives for a fetch of request r, onData makes exactly one
\* validate call, on the fetched Data itself, with r's stored m_onValidated,
\* m_onDataValidated and m_stepCount; r's stored success continuation is
\* invoked only after that validate call (checkPolicy on the fetched Data).
C6_DataRevalidated ==
  \A r \in Requests :
    /\ Len(validated[r]) = Len(SelectSeq(events[r], IsData))
    /\ \A i \in DOMAIN validated[r] :
         /\ validated[r][i].subject.form = "Data"
         /\ validated[r][i].subject.of = r
         /\ validated[r][i].onValidated = reqs[r].m_onValidated
         /\ validated[r][i].onValidationFailed = reqs[r].m_onDataValidated
         /\ validated[r][i].stepCount = reqs[r].m_stepCount
    /\ \A c \in Contexts :
         \A i \in DOMAIN invoked[c] :
           invoked[c][i].fn = reqs[r].m_onValidated =>
             /\ validated[r] # <<>>
             /\ invoked[c][i].by # "validator"

C6_Witness ==
  \E r \in Requests :
    /\ HasData(r)
    /\ \E i \in DOMAIN invoked[r] : invoked[r][i].fn = reqs[r].m_onValidated

\* C7 as stated: whenever onTimeout invokes a failure continuation because a
\* request's retries are exhausted, at any depth, the argument it is bound to
\* is the original top-level subject, not a fetched certificate.
C7_BoundToTopSubject ==
  \A r \in Requests :
    \A i \in DOMAIN Exhaustions(r) : Exhaustions(r)[i].arg.of = 0

\* C7 amended: when the retries of request r are exhausted, onTimeout invokes
\* the onValidationFailed argument of the validate call that issued r, bound
\* to that call's own subject (the top-level subject only when the top-level
\* call issued r), and no further fetch is issued for r: every fetch of r has
\* been answered, the last by a timeout with remaining retry count 0.
C7_Exhausted ==
  \A r \in Requests :
    Exhaustions(r) # <<>> =>
      /\ Len(Exhaustions(r)) = 1
      /\ Exhaustions(r)[1].fn = closure[r].onValidationFailed
      /\ Exhaustions(r)[1].arg = closure[r].subject
      /\ closure[r].subject.of = 0 => Exhaustions(r)[1].arg.of = 0
      /\ ~InFlight(r)
      /\ Len(expressed[r]) = Len(events[r])
      /\ events[r][Len(events[r])].ev = "timeout"
      /\ expressed[r][Len(expressed[r])].retry = 0

C7_Witness ==
  \E r \in Requests :
    /\ Exhaustions(r) # <<>>
    /\ closure[r].subject.of # 0
    /\ Exhaustions(r)[1].arg.of # 0

\* C8: the retry count bound to the fetches of a request starts at m_retry,
\* and each later fetch is a reissue made by onTimeout after the previous
\* fetch timed out, with the count one less; after Data has arrived for a
\* request, whatever the PolicyEngine decides about it, no fetch of that
\* request is issued again.
C8_RetryOnlyOnTimeout ==
  \A r \in Requests :
    /\ \A i \in DOMAIN expressed[r] :
         IF i = 1
           THEN /\ expressed[r][i].retry = reqs[r].m_retry
                /\ expressed[r][i].from = "validate"
           ELSE /\ expressed[r][i].retry = expressed[r][i - 1].retry - 1
                /\ expressed[r][i].from = "onTimeout"
                /\ events[r][i - 1].ev = "timeout"
    /\ \A i \in DOMAIN events[r] :
         /\ events[r][i].id = i
         /\ events[r][i].ev = "data" =>
              /\ i = Len(events[r])
              /\ Len(expressed[r]) = i
              /\ ~InFlight(r)

C8_Witness ==
  \E r \in Requests :
    /\ Len(events[r]) >= 2
    /\ events[r][1].ev = "timeout"
    /\ events[r][Len(events[r])].ev = "data"
    /\ events[r][Len(events[r])].kind = "reject"

\* C9: verifySignature, in each of its three forms, never lets an exception
\* escape: it always returns a value.
C9_NeverRaises == vout # NoOutcome => vout.kind = "return"

\* C10: for a signature type other than Sha256WithRsa, verifySignature in
\* each of its three forms returns false, raises nothing and does not reach
\* the RSA check.
C10_UnsupportedType ==
  (vout # NoOutcome /\ vin.sigType # "Sha256WithRsa") =>
    /\ vout.kind = "return"
    /\ vout.value = FALSE
    /\ ~vout.crypto

C10_Witness ==
  /\ vout # NoOutcome
  /\ vin.sigType = "Unknown"
  /\ vin.form = "Interest"
  /\ vin.nameSize >= 3
  /\ ~vin.blockError
  /\ ~vin.keyLoads
  /\ vin.matches

\* C11: verifySignature on an Interest whose Name has fewer than 3 components
\* returns false at once, without encoding or parsing the Name and without
\* reaching the RSA check; with 3 or more components the Name is always
\* encoded and parsed.
C11_ShortName ==
  (vout # NoOutcome /\ vin.form = "Interest") =>
    IF vin.nameSize < 3
      THEN /\ vout.kind = "return"
           /\ vout.value = FALSE
           /\ ~vout.parsed
           /\ ~vout.crypto
      ELSE vout.parsed

C11_Witness ==
  /\ vout # NoOutcome
  /\ vin.form = "Interest"
  /\ vin.nameSize = 2
  /\ vin.sigType = "Sha256WithRsa"
  /\ ~vin.sigError
  /\ ~vin.blockError
  /\ vin.keyLoads
  /\ vin.matches
  /\ vout.value = FALSE

\* C12: the only Error validate throws is thrown by the top-level call, before
\* any expressInterest call, never by a validate call made from a callback;
\* and once the top-level call has ended and every fetch has been answered the
\* caller has seen either that Error and no continuation, or no Error and a
\* continuation of the top-level call.
C12_Outcomes ==
  /\ Len(thrown) <= 1
  /\ \A i \in DOMAIN thrown :
       /\ thrown[i].subject.of = 0
       /\ thrown[i].expressed = 0
  /\ thrown # <<>> => (call.status = "threw" /\ NumExpressed(State) = 0)
  /\ (call.status # "none" /\ pending = {}) =>
       \/ call.status = "threw" /\ NumUserInvocations = 0
       \/ call.status = "returned" /\ NumUserInvocations >= 1

C12_Witness ==
  /\ call.status = "returned"
  /\ pending = {}
  /\ thrown = <<>>
  /\ NumExpressed(State) >= 2
  /\ NumUserInvocations >= 1
  /\ \E r \in Requests : HasData(r) /\ validated[r] # <<>>

\* C13: every fetch of a request, the first and each reissue, carries the
\* request's target and callbacks bound to that request and to the same
\* onFailure; successive fetches differ only in the retry count, each one less
\* than the one before.
C13_IdenticalReissue ==
  \A r \in Requests :
    \A i \in DOMAIN expressed[r] :
      /\ expressed[r][i].interest = reqs[r].m_interest
      /\ expressed[r][i].nextStep = r
      /\ expressed[r][i].id = i
      /\ i > 1 =>
           /\ expressed[r][i].onFailure = expressed[r][i - 1].onFailure
           /\ expressed[r][i].retry = expressed[r][i - 1].retry - 1

C13_Witness ==
  \E r \in Requests :
    /\ Len(expressed[r]) >= 2
    /\ expressed[r][2].interest = expressed[r][1].interest
    /\ HasData(r)

\* The number of invocations of the continuation `fn` in the history h.
RECURSIVE CountFn(_, _, _)
CountFn(h, fn, n) ==
  IF n < 0
    THEN 0
    ELSE Len(SelectSeq(h[n], LAMBDA v : v.fn = fn)) + CountFn(h, fn, n - 1)

\* The state of request r in the state machine of the specification, read
\* from the histories hE (expressInterest calls), hV (events) and hI
\* (invocations) and from the fetches in flight. A request checkPolicy made
\* that the Validator never issued is "Created".
ReqStateIn(r, rq, pend, hE, hV, hI) ==
  LET n == Len(rq)
      last == hV[r][Len(hV[r])]
  IN IF hE[r] = <<>> THEN "Created"
     ELSE IF \E f \in pend : f.nextStep = r THEN "Issued"
     ELSE IF hV[r] = <<>> THEN "Lost"
     ELSE IF last.ev = "timeout" THEN "Failed"
     ELSE IF CountFn(hI, rq[r].m_onValidated, n) > 0 THEN "Validated"
     ELSE IF CountFn(hI, rq[r].m_onDataValidated, n) > 0 THEN "Failed"
     ELSE "DataReceived"

ReqState(r) == ReqStateIn(r, reqs, pending, expressed, events, invoked)

\* How many times request r has reached a terminal outcome: the invocations of
\* its stored continuations, and the exhaustions of its retries.
OutcomesIn(r, rq, hI) ==
  CountFn(hI, rq[r].m_onValidated, Len(rq))
    + CountFn(hI, rq[r].m_onDataValidated, Len(rq))
    + Len(SelectSeq(hI[r], ByValidator))

\* C14: each request follows only the transitions of the specified state
\* machine. It starts in Issued when the Validator issues its first fetch; a
\* timeout with retries left leaves it Issued and a timeout with none makes it
\* Failed; Data makes it DataReceived and from there Validated or Failed; and
\* nothing happens to a request that is Validated or Failed.
C14_Step ==
  /\ \A r \in (1 .. Len(reqs')) \ Requests :
       ReqStateIn(r, reqs', pending', expressed', events', invoked')
         \in {"Issued", "Created"}
  /\ \A r \in Requests :
       LET a == ReqState(r)
           b == ReqStateIn(r, reqs', pending', expressed', events', invoked')
           same == /\ expressed'[r] = expressed[r]
                   /\ events'[r] = events[r]
           quiet == OutcomesIn(r, reqs', invoked') = OutcomesIn(r, reqs, invoked)
           answered == /\ Len(events'[r]) = Len(events[r]) + 1
                       /\ Len(expressed[r]) = Len(events[r]) + 1
           ev == events'[r][Len(events'[r])].ev
           left == expressed[r][Len(expressed[r])].retry
       IN /\ reqs'[r] = reqs[r]
          /\ CASE a = "Created" -> b = "Created" /\ same /\ quiet
               [] a = "Issued" ->
                    \/ b = "Issued" /\ same /\ quiet
                    \/ /\ answered
                       /\ ev = "timeout"
                       /\ IF left > 0
                            THEN /\ b = "Issued"
                                 /\ Len(expressed'[r]) = Len(expressed[r]) + 1
                                 /\ quiet
                            ELSE /\ b = "Failed"
                                 /\ expressed'[r] = expressed[r]
                    \/ /\ answered
                       /\ ev = "data"
                       /\ expressed'[r] = expressed[r]
                       /\ b \in {"DataReceived", "Validated", "Failed"}
               [] a = "DataReceived" ->
                    /\ same
                    /\ \/ b = "DataReceived" /\ quiet
                       \/ b \in {"Validated", "Failed"}
               [] a \in {"Validated", "Failed"} -> b = a /\ same /\ quiet
               [] OTHER -> FALSE

C14_StateMachine == [][C14_Step]_vars

\* The request whose fetched Data the validate call that issued r was
\* validating (0: r was issued by the top-level call).
Parent(r) == closure[r].subject.of
\* The stepCount of the validate call that issued request r.
IssuerBudget(r) == validated[Parent(r)][1].stepCount

\* C15 as stated: the stepCount passed to a validate call made from onData is
\* never larger than the stepCount of the validate call that issued the
\* request.
C15_NonIncreasing ==
  \A r \in Requests :
    \A i \in DOMAIN validated[r] :
      validated[r][i].stepCount <= IssuerBudget(r)

\* C15 amended: the stepCount passed to a validate call made from onData is
\* exactly the m_stepCount the PolicyEngine stored in the request; it is no
\* larger than the stepCount of the issuing validate call whenever the
\* PolicyEngine stored no larger a value.
C15_BudgetThreaded ==
  \A r \in Requests :
    \A i \in DOMAIN validated[r] :
      /\ validated[r][i].stepCount = reqs[r].m_stepCount
      /\ reqs[r].m_stepCount <= IssuerBudget(r) =>
           validated[r][i].stepCount <= IssuerBudget(r)

C15_Witness ==
  \E r \in Requests :
    /\ validated[r] # <<>>
    /\ validated[r][1].subject.of = r
    /\ validated[r][1].stepCount < IssuerBudget(r)

\* C16: a fetch in flight stays in flight until the Face answers it with Data
\* or a timeout; and a timeout with retries left reissues the fetch, with the
\* same target and onFailure and one retry less, whether or not a continuation
\* of the top-level call has already been invoked for a sibling.
C16_Step ==
  \A f \in pending :
    \/ f \in pending'
    \/ LET r == f.nextStep
           e == events'[r][Len(events'[r])]
       IN /\ Len(events'[r]) = Len(events[r]) + 1
          /\ e.id = f.id
          /\ e.ev \in {"data", "timeout"}
          /\ (e.ev = "timeout" /\ f.retry > 0) =>
               \E g \in pending' :
                 /\ g.nextStep = r
                 /\ g.id = f.id + 1
                 /\ g.retry = f.retry - 1
                 /\ g.interest = f.interest
                 /\ g.onFailure = f.onFailure

C16_NoCancellation == [][C16_Step]_vars

C16_Witness ==
  /\ NumUserInvocations >= 1
  /\ \E r, q \in Requests :
       /\ r # q
       /\ Parent(r) = Parent(q)
       /\ ~InFlight(q)
       /\ \E f \in pending : f.nextStep = r /\ f.from = "onTimeout"

\* C17: each request has at most one fetch in flight, the last one issued;
\* every fetch but the first was issued by onTimeout after the fetch before it
\* timed out, and none is issued after Data has arrived for the request.
C17_OneOutstanding ==
  \A r \in Requests :
    LET out == {f \in pending : f.nextStep = r}
        n == Len(expressed[r])
    IN /\ Cardinality(out) <= 1
       /\ Len(events[r]) = n - Cardinality(out)
       /\ \A f \in out : f = expressed[r][n]
       /\ \A i \in 2 .. n :
            /\ expressed[r][i].from = "onTimeout"
            /\ events[r][i - 1] = [id |-> i - 1, ev |-> "timeout",
                                   kind |-> "none"]
       /\ \A i \in DOMAIN events[r] : events[r][i].ev = "data" => i = n

C17_Witness ==
  \E r \in Requests :
    /\ Cardinality({f \in pending : f.nextStep = r}) = 1
    /\ \E f \in pending : f.nextStep = r /\ f.from = "onTimeout" /\ f.id = 2

\* C18: the onFailure bound into every fetch of request r, and invoked when
\* r's retries are exhausted, is the onValidationFailed argument of the
\* validate call that issued r applied to that call's subject, never r's own
\* stored failure continuation; for a request issued by a validate call made
\* from onData it is the parent request's stored failure continuation applied
\* to the parent's fetched certificate. The continuations stored in r are
\* invoked only after Data has arrived for r.
C18_IssuerFailure ==
  \A r \in Requests :
    LET v == validated[Parent(r)][1]
        bound == [fn |-> v.onValidationFailed, arg |-> v.subject]
    IN /\ \A i \in DOMAIN expressed[r] : expressed[r][i].onFailure = bound
       /\ \A i \in DOMAIN Exhaustions(r) :
            /\ Exhaustions(r)[i].fn = bound.fn
            /\ Exhaustions(r)[i].arg = bound.arg
            /\ Exhaustions(r)[i].fn.owner # r
       /\ Parent(r) # 0 =>
            /\ bound.fn = reqs[Parent(r)].m_onDataValidated
            /\ bound.arg.of = Parent(r)
            /\ bound.arg.form = "Data"
       /\ Parent(r) = 0 =>
            /\ bound.fn = OnValidationFailedOf(0)
            /\ bound.arg.of = 0
       /\ \A c \in Contexts :
            \A i \in DOMAIN invoked[c] :
              invoked[c][i].fn.owner = r => HasData(r)

C18_Witness ==
  \E r \in Requests :
    /\ Parent(r) # 0
    /\ Len(Exhaustions(r)) = 1
    /\ Exhaustions(r)[1].fn = reqs[Parent(r)].m_onDataValidated
    /\ Exhaustions(r)[1].arg = validated[Parent(r)][1].subject

\* How many validate calls deep request r is (1: issued by the top-level call).
RECURSIVE Depth(_)
Depth(r) == IF Parent(r) = 0 THEN 1 ELSE 1 + Depth(Parent(r))

FairSpec == Spec /\ WF_vars(OnData \/ OnTimeout)

\* Under FairSpec and that PolicyEngine, a validate call that has returned
\* leads to a state with no fetch in flight.
C19_Terminates ==
  (budgetRule = -1 /\ call.status = "returned") ~> (pending = {})

\* Without a decreasing budget nothing in the Validator ends the chain: it is
\* as deep as the PolicyEngine makes it, deeper than the top-level stepCount.
C19_DepthExceedsBudget ==
  \E r \in Requests :
    budgetRule = 0 /\ Depth(r) > call.stepCount /\ Depth(r) = MaxReqs

\* C20: no step changes m_face or any field of an existing ValidationRequest;
\* the remaining retry count is held by the callbacks bound to the fetch in
\* flight, starting from the request's m_retry at the first fetch.
C20_Step ==
  /\ m_face' = m_face
  /\ \A r \in Requests : reqs'[r] = reqs[r]
  /\ \A r \in 1 .. Len(reqs') :
       /\ expressed'[r] # <<>> => expressed'[r][1].retry = reqs'[r].m_retry
       /\ \A f \in pending' :
            f.nextStep = r =>
              f.retry = reqs'[r].m_retry - (Len(expressed'[r]) - 1)

C20_RequestsImmutable == [][C20_Step]_vars

C20_Witness ==
  \E f \in pending :
    /\ f.retry < reqs[f.nextStep].m_retry
    /\ reqs[f.nextStep].m_retry = MaxRetry

====
